---- MODULE Spec2Model ----
(***************************************************************************)
(* A model of the multi-agent pipeline of src/: the Orchestrator           *)
(* (src/orchestrator.py) and its four agents (src/agents/*.py).            *)
(*                                                                         *)
(* Values.  A cell is a tuple: <<"num", v>> a number, <<"str", id>> a      *)
(* string (ids are ordered as the strings sort), <<"bool", b>> a boolean,  *)
(* <<"nan", 0>> a missing value, and <<"z", k, D, n>> the standardized     *)
(* number k / sqrt(n * D / (n - 1)), where k = n*x - sum(x) and            *)
(* D = n*sum(x^2) - sum(x)^2 (so that (x - mean) / std is kept exactly).   *)
(* A DataFrame is [cols, kinds, rows]; a Series is [name, kind, vals]; an  *)
(* array of predictions is [vals]; Python's None is the record None.       *)
(***************************************************************************)
EXTENDS Integers, Sequences, FiniteSets, TLC

VARIABLES
    libs,          \* which optional libraries import: [sklearn, joblib, matplotlib]
    disk,          \* model files: path -> Absent | Corrupt | a pickled estimator
    saved,         \* history: per path, the agent's model and model_type at the last joblib.dump
    data,          \* Orchestrator.data
    features,      \* Orchestrator.features
    target,        \* Orchestrator.target
    predictions,   \* Orchestrator.predictions
    model,         \* PredictionAgent.model
    model_type,    \* PredictionAgent.model_type
    pc,            \* position inside run_pipeline, or "idle" / "done" / "failed"
    args,          \* the arguments of the current run_pipeline call
    trace,         \* the stage invocations of the current run_pipeline call, in order
    results,       \* what run_pipeline returned (None while it has not)
    raised,        \* the exception run_pipeline let through (None if none)
    calls,         \* run_pipeline calls made on this Orchestrator
    runs,          \* run_pipeline calls and direct PredictionAgent.run calls made so far
    ops,           \* other top-level operations made so far
    last           \* the last direct call of PredictionAgent.run / save_model / load_model

vars == <<libs, disk, saved, data, features, target, predictions, model,
          model_type, pc, args, trace, results, raised, calls, runs, ops, last>>

\* ------------------------------------------------------------------ bounds

\* run_pipeline calls (or direct PredictionAgent.run calls) in one behaviour
MaxCalls == 2

\* other top-level operations (save_model, load_model, a new Orchestrator) in
\* one behaviour
MaxOps == 2

\* ------------------------------------------------------------------ values

None == [none |-> TRUE]

NaN == <<"nan", 0>>

Num(v) == <<"num", v>>

Str(id) == <<"str", id>>

IsNaN(c) == c[1] = "nan"

Range(s) == {s[i] : i \in 1..Len(s)}

RECURSIVE SumSeq(_)
SumSeq(s) == IF s = <<>> THEN 0 ELSE Head(s) + SumSeq(Tail(s))

\* df.shape
Shape(df) == <<Len(df.rows), Len(df.cols)>>

\* the values of column j, in row order
Column(df, j) == [i \in 1..Len(df.rows) |-> df.rows[i][j]]

\* position of a column name in df.columns (0 when it is not a column)
ColIndex(df, name) ==
    IF \E j \in 1..Len(df.cols) : df.cols[j] = name
    THEN CHOOSE j \in 1..Len(df.cols) : df.cols[j] = name
    ELSE 0

\* s without its j-th element
DropAt(s, j) == [i \in 1..(Len(s) - 1) |-> IF i < j THEN s[i] ELSE s[i + 1]]

\* ------------------------------------------------------------------ DataCollectorAgent

\* dtype pandas infers for a parsed column
InferKind(cells) ==
    IF cells # <<>> /\ \A i \in 1..Len(cells) : cells[i][1] \in {"num", "nan"}
    THEN "number"
    ELSE IF cells # <<>> /\ \A i \in 1..Len(cells) : cells[i][1] = "bool"
    THEN "bool"
    ELSE "object"

\* drop_duplicates with a fault: keeps the last occurrence of each row
RECURSIVE drop_duplicatesKeepLast(_)
drop_duplicatesKeepLast(rows) ==
    IF rows = <<>> THEN <<>>
    ELSE IF Head(rows) \in Range(Tail(rows))
         THEN drop_duplicatesKeepLast(Tail(rows))
         ELSE <<Head(rows)>> \o drop_duplicatesKeepLast(Tail(rows))

\* DataFrame.drop_duplicates(): keeps the first occurrence of each row
RECURSIVE drop_duplicates(_)
drop_duplicates(rows) ==
    IF rows = <<>> THEN <<>>
    ELSE LET init == drop_duplicates(SubSeq(rows, 1, Len(rows) - 1))
             r == rows[Len(rows)]
         IN IF r \in Range(init) THEN init ELSE Append(init, r)

HasMissing(row) == \E j \in 1..Len(row) : IsNaN(row[j])

\* dropna with a fault: drops only the rows whose every value is missing
dropnaAll(rows) ==
    SelectSeq(rows, LAMBDA r : \E j \in 1..Len(r) : ~IsNaN(r[j]))

\* DataFrame.dropna(): drops the rows with any missing value
dropna(rows) == SelectSeq(rows, LAMBDA r : ~HasMissing(r))

\* drop_duplicates(subset=[first column]): keeps the first row of each value of
\* the first column
RECURSIVE drop_duplicatesByFirst(_)
drop_duplicatesByFirst(rows) ==
    IF rows = <<>> THEN <<>>
    ELSE LET init == drop_duplicatesByFirst(SubSeq(rows, 1, Len(rows) - 1))
             r == rows[Len(rows)]
         IN IF \E k \in 1..Len(init) : init[k][1] = r[1]
            THEN init ELSE Append(init, r)

\* _clean_data with a fault: rows count as duplicates when their first cells
\* are equal
clean_dataByFirst(df) ==
    LET deduped == drop_duplicatesByFirst(df.rows)
    IN [df EXCEPT !.rows = IF \E i \in 1..Len(deduped) : HasMissing(deduped[i])
                           THEN dropna(deduped) ELSE deduped]

\* DataCollectorAgent._clean_data
clean_data(df) ==
    LET deduped == drop_duplicates(df.rows)
    IN [df EXCEPT !.rows = IF \E i \in 1..Len(deduped) : HasMissing(deduped[i])
                           THEN dropna(deduped)
                           ELSE deduped]

\* The delimited source files the pipeline can be pointed at: "absent" (the path
\* does not resolve), "garbage" (not parseable as delimited data) or a parsed
\* table.  train.csv holds a duplicate row and a row with a missing cell.
CsvFile(path) ==
    CASE path = "train.csv" ->
           [cols |-> <<"age", "city", "target">>,
            rows |-> << <<Num(30), Str(2), Num(1)>>,
                        <<Num(40), Str(1), Num(0)>>,
                        <<Num(30), Str(2), Num(1)>>,
                        <<NaN,     Str(1), Num(0)>>,
                        <<Num(50), Str(2), Num(1)>> >>]
      [] path = "score.csv" ->
           [cols |-> <<"age", "city">>,
            rows |-> << <<Num(20), Str(1)>>,
                        <<Num(60), Str(3)>> >>]
      [] path = "garbage.csv" -> [file |-> "garbage"]
      [] OTHER -> [file |-> "absent"]

Exc(name) == [exc |-> name]

IsExc(v) == "exc" \in DOMAIN v

\* pd.read_csv: raises, or returns the table with its inferred dtypes
read_csv(path) ==
    LET f == CsvFile(path)
    IN IF f = [file |-> "absent"] THEN Exc("FileNotFoundError")
       ELSE IF f = [file |-> "garbage"] THEN Exc("ParserError")
       ELSE [cols |-> f.cols,
             kinds |-> [j \in 1..Len(f.cols) |->
                           InferKind([i \in 1..Len(f.rows) |-> f.rows[i][j]])],
             rows |-> f.rows]

\* DataCollectorAgent.run: the cleaned DataFrame, or the exception re-raised as is
DataCollectorRun(path) ==
    LET df == read_csv(path)
    IN IF IsExc(df) THEN df ELSE clean_data(df)

\* ------------------------------------------------------------------ FeatureProcessorAgent

\* the non-missing numbers of a numeric column
Numbers(cells) ==
    LET present == SelectSeq(cells, LAMBDA c : ~IsNaN(c))
    IN [i \in 1..Len(present) |-> present[i][2]]

\* (col - mean) / std of lines 80-84, kept exactly: n * sum(x^2) - sum(x)^2 is
\* zero exactly when std is zero; with fewer than two numbers std is NaN, NaN != 0
\* holds, and the division makes every cell NaN
Standardize(cells) ==
    LET xs == Numbers(cells)
        n == Len(xs)
        S == SumSeq(xs)
        D == n * SumSeq([i \in 1..n |-> xs[i] * xs[i]]) - S * S
    IN [i \in 1..Len(cells) |->
          IF IsNaN(cells[i]) \/ n < 2 THEN NaN
          ELSE IF D = 0 THEN cells[i]
          ELSE <<"z", n * cells[i][2] - S, D, n>>]

\* StrKey with a fault: strings are compared ignoring case, so that the
\* strings 2k - 1 and 2k are taken for one
StrKeyFolded(c) ==
    CASE c[1] = "bool" -> c[2] - 2
      [] c[1] = "nan" -> 0
      [] OTHER -> (c[2] + 1) \div 2

\* sort key of str(cell): "False" < "True" < "nan" < the strings by id
StrKey(c) ==
    CASE c[1] = "bool" -> c[2] - 2
      [] c[1] = "nan" -> 0
      [] OTHER -> c[2]

\* LabelEncoder().fit_transform(col.astype(str)): the rank of str(cell) among
\* the sorted distinct strings of the column
LabelEncode(cells) ==
    LET keys == {StrKey(cells[i]) : i \in 1..Len(cells)}
    IN [i \in 1..Len(cells) |->
          Num(Cardinality({k \in keys : k < StrKey(cells[i])}))]

\* pd.Categorical(col).codes: the rank among the sorted distinct non-missing
\* values, and -1 for a missing value
CategoricalCodes(cells) ==
    LET keys == {StrKey(cells[i]) : i \in {k \in 1..Len(cells) : ~IsNaN(cells[k])}}
    IN [i \in 1..Len(cells) |->
          IF IsNaN(cells[i]) THEN Num(-1)
          ELSE Num(Cardinality({k \in keys : k < StrKey(cells[i])}))]

\* FeatureProcessorAgent._engineer_features
engineer_features(df, sklearn) ==
    LET new(j) ==
            CASE df.kinds[j] = "number" -> Standardize(Column(df, j))
              [] df.kinds[j] = "object" ->
                   IF sklearn THEN LabelEncode(Column(df, j))
                   ELSE CategoricalCodes(Column(df, j))
              [] OTHER -> Column(df, j)
    IN [cols |-> df.cols,
        kinds |-> [j \in 1..Len(df.cols) |->
                      IF df.kinds[j] = "object" THEN "number" ELSE df.kinds[j]],
        rows |-> [i \in 1..Len(df.rows) |->
                      [j \in 1..Len(df.cols) |-> new(j)[i]]]]

\* `target_column and target_column in df.columns` (line 41); a column name is
\* passed as [name |-> "..."], no name as None
HasTarget(df, target_column) ==
    target_column # None /\ ColIndex(df, target_column.name) # 0

\* df.drop(columns=[target_column])
DropColumn(df, j) ==
    [cols |-> DropAt(df.cols, j),
     kinds |-> DropAt(df.kinds, j),
     rows |-> [i \in 1..Len(df.rows) |-> DropAt(df.rows[i], j)]]

\* run with a fault: a target_column the table does not have is an error
FeatureProcessorRunStrict(df, target_column, sklearn) ==
    IF target_column # None /\ ColIndex(df, target_column.name) = 0
    THEN [features |-> Exc("KeyError"), target |-> None]
    ELSE IF HasTarget(df, target_column)
    THEN LET j == ColIndex(df, target_column.name)
         IN [features |-> engineer_features(DropColumn(df, j), sklearn),
             target |-> [name |-> df.cols[j], kind |-> df.kinds[j],
                         vals |-> Column(df, j)]]
    ELSE [features |-> engineer_features(df, sklearn), target |-> None]

\* run with a fault: the target is split off after the transformation
FeatureProcessorRunLate(df, target_column, sklearn) ==
    IF HasTarget(df, target_column)
    THEN LET j == ColIndex(df, target_column.name)
             e == engineer_features(df, sklearn)
         IN [features |-> DropColumn(e, j),
             target |-> [name |-> e.cols[j], kind |-> e.kinds[j],
                         vals |-> Column(e, j)]]
    ELSE [features |-> engineer_features(df, sklearn), target |-> None]

\* FeatureProcessorAgent.run: [features, target], target None when the call
\* returns the features alone
FeatureProcessorRun(df, target_column, sklearn) ==
    IF HasTarget(df, target_column)
    THEN LET j == ColIndex(df, target_column.name)
         IN [features |-> engineer_features(DropColumn(df, j), sklearn),
             target |-> [name |-> df.cols[j], kind |-> df.kinds[j],
                         vals |-> Column(df, j)]]
    ELSE [features |-> engineer_features(df, sklearn), target |-> None]

\* ------------------------------------------------------------------ PredictionAgent

\* `unique_targets < 20` (line 63)
ClassificationThreshold == 20

\* nunique with a fault: counts the values, repeated ones included
nuniqueCount(series) ==
    Len(SelectSeq(series.vals, LAMBDA v : ~IsNaN(v)))

\* Series.nunique(): distinct non-missing values
nunique(series) ==
    Cardinality({series.vals[i] : i \in 1..Len(series.vals)} \ {NaN})

\* np.zeros(n)
Zeros(n) == [vals |-> [i \in 1..n |-> Num(0)]]

\* RandomForestClassifier(...) / RandomForestRegressor(...) before fit
Unfitted(cls) == [cls |-> cls, fitted |-> FALSE, cols |-> <<>>, X |-> <<>>, y |-> <<>>]

\* the estimator after fit(features, target): with the fixed random_state it is
\* a function of its class and of the training data
Fitted(cls, X, y) ==
    [cls |-> cls, fitted |-> TRUE, cols |-> X.cols, X |-> X.rows, y |-> y.vals]

HasNaNCells(X) ==
    \E i \in 1..Len(X.rows) : HasMissing(X.rows[i])

\* estimator.fit(features, target) raises ValueError: no sample, no feature,
\* features and target of different lengths, a missing target, strings as a
\* regression target, or missing feature values the forest does not accept
FitRaises(cls, X, y, nan_ok) ==
    \/ Len(X.rows) = 0
    \/ Len(X.cols) = 0
    \/ Len(y.vals) # Len(X.rows)
    \/ \E i \in 1..Len(y.vals) : IsNaN(y.vals[i])
    \/ cls = "regression" /\ y.kind = "object"
    \/ HasNaNCells(X) /\ ~nan_ok

\* estimator.predict(features) raises: not fitted, other feature names than at
\* fit, or missing feature values the forest does not accept
PredictRaises(est, X, nan_ok) ==
    \/ ~est.fitted
    \/ est.cols # X.cols
    \/ HasNaNCells(X) /\ ~nan_ok

\* estimator.predict(features): one output per row, a function of the fitted
\* estimator and of the row
EstimatorPredict(est, X) ==
    [vals |-> [i \in 1..Len(X.rows) |-> <<"yhat", est, X.rows[i]>>]]

\* train_model with a fault: the estimator is kept but model_type is not assigned
train_modelUntagged(m, mt, X, y, sklearn, nan_ok) ==
    IF ~sklearn
    THEN [model |-> m, model_type |-> mt, out |-> Zeros(Len(X.rows))]
    ELSE LET cls == IF nunique(y) < ClassificationThreshold
                    THEN "classification" ELSE "regression"
         IN IF FitRaises(cls, X, y, nan_ok)
            THEN [model |-> Unfitted(cls), model_type |-> mt,
                  out |-> Exc("ValueError")]
            ELSE [model |-> Fitted(cls, X, y), model_type |-> mt,
                  out |-> EstimatorPredict(Fitted(cls, X, y), X)]

\* PredictionAgent._train_model: the agent's fields afterwards and what the call
\* returns (an array) or raises (an exception)
train_model(m, mt, X, y, sklearn, nan_ok) ==
    IF ~sklearn
    THEN [model |-> m, model_type |-> mt, out |-> Zeros(Len(X.rows))]
    ELSE LET cls == IF nunique(y) < ClassificationThreshold
                    THEN "classification" ELSE "regression"
         IN IF FitRaises(cls, X, y, nan_ok)
            THEN [model |-> Unfitted(cls), model_type |-> [kind |-> cls],
                  out |-> Exc("ValueError")]
            ELSE [model |-> Fitted(cls, X, y), model_type |-> [kind |-> cls],
                  out |-> EstimatorPredict(Fitted(cls, X, y), X)]

\* predict with a fault: without a model the call raises instead of degrading
predictStrict(m, mt, X, nan_ok) ==
    [model |-> m, model_type |-> mt,
     out |-> IF m = None \/ ~m.fitted THEN Exc("NotFittedError")
             ELSE IF PredictRaises(m, X, nan_ok) THEN Exc("ValueError")
             ELSE EstimatorPredict(m, X)]

\* _predict with a fault: inference forgets the task kind
predictForgetful(m, mt, X, nan_ok) ==
    [model |-> m, model_type |-> None,
     out |-> IF m = None THEN Zeros(Len(X.rows))
             ELSE IF ~m.fitted THEN Exc("NotFittedError")
             ELSE IF PredictRaises(m, X, nan_ok) THEN Exc("ValueError")
             ELSE EstimatorPredict(m, X)]

\* PredictionAgent._predict
predict(m, mt, X, nan_ok) ==
    [model |-> m, model_type |-> mt,
     out |-> IF m = None THEN Zeros(Len(X.rows))
             ELSE IF ~m.fitted THEN Exc("NotFittedError")
             ELSE IF PredictRaises(m, X, nan_ok) THEN Exc("ValueError")
             ELSE EstimatorPredict(m, X)]

\* run with a fault: training without a target falls back to inference
PredictionRunLenient(m, mt, X, train, y, sklearn, nan_ok) ==
    IF train /\ y # None
    THEN train_model(m, mt, X, y, sklearn, nan_ok)
    ELSE predict(m, mt, X, nan_ok)

\* PredictionAgent.run
PredictionRun(m, mt, X, train, y, sklearn, nan_ok) ==
    IF train
    THEN IF y = None
         THEN [model |-> m, model_type |-> mt, out |-> Exc("ValueError")]
         ELSE train_model(m, mt, X, y, sklearn, nan_ok)
    ELSE predict(m, mt, X, nan_ok)

\* the model files a call can name
ModelPaths == {"model.pkl", "corrupt.pkl"}

\* a path that holds no file, and a file joblib cannot deserialize
Absent == [file |-> "absent"]

Corrupt == [file |-> "corrupt"]

\* save_model with a fault: dumps whatever the agent holds, None included
save_modelAlways(m, files, path, joblib) ==
    IF ~joblib THEN files
    ELSE [files EXCEPT ![path] = m]

\* PredictionAgent.save_model: the files afterwards
save_model(m, files, path, joblib) ==
    IF m = None \/ ~joblib THEN files
    ELSE [files EXCEPT ![path] = m]

\* load_model with a fault: a load that fails clears the model
load_modelClearing(m, files, path, joblib) ==
    IF ~joblib THEN None
    ELSE IF files[path] \in {Absent, Corrupt} THEN None
    ELSE files[path]

\* PredictionAgent.load_model: the model afterwards; every failure of
\* joblib.load is caught and logged, and model_type is not assigned
load_model(m, files, path, joblib) ==
    IF ~joblib THEN m
    ELSE IF files[path] \in {Absent, Corrupt} THEN m
    ELSE files[path]

\* ------------------------------------------------------------------ VisualizationAgent

\* an image path whose directory does not exist
UnwritablePath == "/no/such/dir/out.png"

\* num_plots with a fault: one subplot per input that is present
num_plotsPerInput(preds, tgt) ==
    1 + (IF preds # None THEN 1 ELSE 0) + (IF tgt # None THEN 1 ELSE 0)

\* num_plots of lines 38-42
num_plots(preds, tgt) ==
    1 + (IF preds # None THEN 1 ELSE 0)
      + (IF tgt # None /\ preds # None THEN 1 ELSE 0)

\* the path savefig is given (lines 65-70)
SavePath(save_path) ==
    IF save_path # None THEN save_path.name ELSE "visualization.png"

\* what raises inside the try block: ax.scatter(target, predictions) on
\* sequences of different sizes, or savefig into a missing directory
RenderRaises(preds, tgt, save_path) ==
    IF preds # None /\ tgt # None /\ Len(preds.vals) # Len(tgt.vals)
    THEN Exc("ValueError")
    ELSE IF SavePath(save_path) = UnwritablePath
    THEN Exc("FileNotFoundError")
    ELSE None

\* run with a fault: the figure is built and saved whether or not matplotlib
\* was imported
VisualizationRunUnguarded(df, preds, tgt, save_path, matplotlib) ==
    IF RenderRaises(preds, tgt, save_path) # None
    THEN [panels |-> num_plots(preds, tgt), wrote |-> None,
          caught |-> RenderRaises(preds, tgt, save_path)]
    ELSE [panels |-> num_plots(preds, tgt),
          wrote |-> [name |-> SavePath(save_path)], caught |-> None]

\* VisualizationAgent.run: it returns None and raises nothing; `caught` is the
\* exception its handlers logged (ImportError without matplotlib), `panels` the
\* subplots it created and `wrote` the image file it saved
VisualizationRun(df, preds, tgt, save_path, matplotlib) ==
    IF ~matplotlib
    THEN [panels |-> 0, wrote |-> None, caught |-> Exc("ImportError")]
    ELSE IF RenderRaises(preds, tgt, save_path) # None
    THEN [panels |-> num_plots(preds, tgt), wrote |-> None,
          caught |-> RenderRaises(preds, tgt, save_path)]
    ELSE [panels |-> num_plots(preds, tgt),
          wrote |-> [name |-> SavePath(save_path)], caught |-> None]

\* ------------------------------------------------------------------ Orchestrator

\* the arguments run_pipeline is called with
DataPaths == {"train.csv", "score.csv", "garbage.csv", "nofile.csv"}

TargetColumns == {None, [name |-> "target"], [name |-> "label"]}

SaveVisualizations == {None, [name |-> "plots/out.png"], [name |-> UnwritablePath]}

\* Orchestrator.__init__ and the agents' constructors
Init ==
    /\ libs \in [sklearn : BOOLEAN, joblib : BOOLEAN, matplotlib : BOOLEAN]
    /\ disk = [p \in ModelPaths |-> IF p = "corrupt.pkl" THEN Corrupt ELSE Absent]
    /\ saved = [p \in ModelPaths |-> None]
    /\ data = None
    /\ features = None
    /\ target = None
    /\ predictions = None
    /\ model = None
    /\ model_type = None
    /\ pc = "idle"
    /\ args = None
    /\ trace = <<>>
    /\ results = None
    /\ raised = None
    /\ calls = 0
    /\ runs = 0
    /\ ops = 0
    /\ last = None

\* no run_pipeline call is in progress
AtRest == pc \in {"idle", "done", "failed"}

\* a new Orchestrator (and agents) in the same process environment
OrchestratorInit ==
    /\ AtRest
    /\ ops < MaxOps
    /\ data' = None
    /\ features' = None
    /\ target' = None
    /\ predictions' = None
    /\ model' = None
    /\ model_type' = None
    /\ pc' = "idle"
    /\ args' = None
    /\ trace' = <<>>
    /\ results' = None
    /\ raised' = None
    /\ calls' = 0
    /\ ops' = ops + 1
    /\ last' = None
    /\ UNCHANGED <<libs, disk, saved, runs>>

\* run_pipeline is called (lines 35-50)
StartPipeline ==
    /\ AtRest
    /\ runs < MaxCalls
    /\ \E p \in DataPaths, c \in TargetColumns, t \in BOOLEAN, v \in BOOLEAN,
          s \in SaveVisualizations :
          args' = [data_path |-> p, target_column |-> c, train_model |-> t,
                   visualize |-> v, save_visualization |-> s]
    /\ pc' = "collect"
    /\ trace' = <<>>
    /\ results' = None
    /\ raised' = None
    /\ calls' = calls + 1
    /\ runs' = runs + 1
    /\ last' = None
    /\ UNCHANGED <<libs, disk, saved, data, features, target, predictions,
                   model, model_type, ops>>

\* a stage invocation as the trace records it
Invocation(stage, input, output) ==
    [stage |-> stage, input |-> input, output |-> output]

\* Collect with a fault: a failed collection is attempted a second time
CollectWithRetry ==
    /\ pc = "collect"
    /\ LET out == DataCollectorRun(args.data_path)
           inv == Invocation("Collection", [data_path |-> args.data_path], out)
       IN /\ trace' = IF IsExc(out) THEN trace \o <<inv, inv>>
                       ELSE Append(trace, inv)
          /\ IF IsExc(out)
             THEN /\ raised' = out
                  /\ pc' = "failed"
                  /\ data' = data
             ELSE /\ raised' = raised
                  /\ pc' = "feature"
                  /\ data' = out
    /\ UNCHANGED <<libs, disk, saved, features, target, predictions, model,
                   model_type, args, results, calls, runs, ops, last>>

\* Step 1 (line 54): self.data = self.data_collector.run(data_path)
Collect ==
    /\ pc = "collect"
    /\ LET out == DataCollectorRun(args.data_path)
       IN /\ trace' = Append(trace, Invocation("Collection",
                                [data_path |-> args.data_path], out))
          /\ IF IsExc(out)
             THEN /\ raised' = out
                  /\ pc' = "failed"
                  /\ data' = data
             ELSE /\ raised' = raised
                  /\ pc' = "feature"
                  /\ data' = out
    /\ UNCHANGED <<libs, disk, saved, features, target, predictions, model,
                   model_type, args, results, calls, runs, ops, last>>

\* what Step 2 hands to the FeatureProcessorAgent (line 58)
FeatureInput == data

\* Feature with a fault: _engineer_features works on the DataFrame it is given
\* instead of a copy, so the Orchestrator's data is transformed too
FeatureInPlace ==
    /\ pc = "feature"
    /\ LET r == FeatureProcessorRun(FeatureInput, args.target_column, libs.sklearn)
       IN /\ trace' = Append(trace, Invocation("Feature",
                                [df |-> FeatureInput,
                                 target_column |-> args.target_column], r))
          /\ features' = r.features
          /\ target' = IF r.target # None THEN r.target ELSE target
          /\ data' = IF r.target = None THEN r.features ELSE data
    /\ pc' = "predict"
    /\ UNCHANGED <<libs, disk, saved, predictions, model, model_type,
                   args, results, raised, calls, runs, ops, last>>

\* Step 2 (lines 58-62): a tuple sets features and target, a DataFrame features only
Feature ==
    /\ pc = "feature"
    /\ LET r == FeatureProcessorRun(FeatureInput, args.target_column, libs.sklearn)
       IN /\ trace' = Append(trace, Invocation("Feature",
                                [df |-> FeatureInput,
                                 target_column |-> args.target_column], r))
          /\ features' = r.features
          /\ target' = IF r.target # None THEN r.target ELSE target
    /\ pc' = "predict"
    /\ UNCHANGED <<libs, disk, saved, data, predictions, model, model_type,
                   args, results, raised, calls, runs, ops, last>>

\* `if train_model and self.target is not None` (line 65)
ShouldTrain == args.train_model /\ target # None

\* `elif not train_model and self.prediction_agent.model is not None` (line 70)
ShouldPredict == ~args.train_model /\ model # None

\* PredictionInput with a fault: the cleaned Dataset is handed on, not the features
PredictionInputData == data

\* the features Step 3 hands to the PredictionAgent (lines 68, 72)
PredictionInput == features

\* whether the installed forest accepts missing feature values depends on the
\* scikit-learn release; it only matters for features that hold one
NanSupport(X) == IF HasNaNCells(X) THEN BOOLEAN ELSE {TRUE}

\* InvokePrediction with a fault: the Orchestrator catches what the agent raises
\* and goes on without predictions
InvokePredictionCaught(train, y) ==
    \E nan_ok \in NanSupport(PredictionInput) :
       LET r == PredictionRun(model, model_type, PredictionInput, train, y,
                              libs.sklearn, nan_ok)
       IN /\ trace' = Append(trace, Invocation("Prediction",
                                [features |-> PredictionInput, train |-> train,
                                 target |-> y, model |-> model], r.out))
          /\ model' = r.model
          /\ model_type' = r.model_type
          /\ raised' = raised
          /\ pc' = "visualize"
          /\ predictions' = IF IsExc(r.out) THEN predictions ELSE r.out

\* self.predictions = self.prediction_agent.run(...) (lines 67-69 and 72)
InvokePrediction(train, y) ==
    \E nan_ok \in NanSupport(PredictionInput) :
       LET r == PredictionRun(model, model_type, PredictionInput, train, y,
                              libs.sklearn, nan_ok)
       IN /\ trace' = Append(trace, Invocation("Prediction",
                                [features |-> PredictionInput, train |-> train,
                                 target |-> y, model |-> model], r.out))
          /\ model' = r.model
          /\ model_type' = r.model_type
          /\ IF IsExc(r.out)
             THEN /\ raised' = r.out
                  /\ pc' = "failed"
                  /\ predictions' = predictions
             ELSE /\ raised' = raised
                  /\ pc' = "visualize"
                  /\ predictions' = r.out

\* Step 3, first branch (lines 65-69)
TrainAndPredict ==
    /\ pc = "predict"
    /\ ShouldTrain
    /\ InvokePrediction(TRUE, target)
    /\ UNCHANGED <<libs, disk, saved, data, features, target, args, results,
                   calls, runs, ops, last>>

\* Step 3, second branch (lines 70-72)
MakePredictions ==
    /\ pc = "predict"
    /\ ~ShouldTrain
    /\ ShouldPredict
    /\ InvokePrediction(FALSE, None)
    /\ UNCHANGED <<libs, disk, saved, data, features, target, args, results,
                   calls, runs, ops, last>>

\* Step 3, last branch (lines 73-74)
SkipPrediction ==
    /\ pc = "predict"
    /\ ~ShouldTrain
    /\ ~ShouldPredict
    /\ pc' = "visualize"
    /\ UNCHANGED <<libs, disk, saved, data, features, target, predictions,
                   model, model_type, args, trace, results, raised, calls, runs,
                   ops, last>>

\* Summary with a fault: the shape of the features is reported as data_shape
SummaryOfFeatures(d, f, p) ==
    IF p # None
    THEN [data_shape |-> Shape(f), features_shape |-> Shape(f),
          has_predictions |-> TRUE, num_predictions |-> Len(p.vals)]
    ELSE [data_shape |-> Shape(f), features_shape |-> Shape(f),
          has_predictions |-> FALSE]

\* the results dict of lines 89-96
Summary(d, f, p) ==
    IF p # None
    THEN [data_shape |-> Shape(d), features_shape |-> Shape(f),
          has_predictions |-> TRUE, num_predictions |-> Len(p.vals)]
    ELSE [data_shape |-> Shape(d), features_shape |-> Shape(f),
          has_predictions |-> FALSE]

\* VisualizationData with a fault: the Feature Matrix is plotted
VisualizationDataFeatures == features

\* the DataFrame Step 4 hands to the VisualizationAgent (line 80)
VisualizationData == data

\* Step 4 with visualize (lines 77-84), then the return of lines 86-98
Visualize ==
    /\ pc = "visualize"
    /\ args.visualize
    /\ trace' = Append(trace, Invocation("Visualization",
                          [data |-> VisualizationData,
                           predictions |-> predictions, target |-> target,
                           save_path |-> args.save_visualization],
                          VisualizationRun(VisualizationData, predictions, target,
                                           args.save_visualization,
                                           libs.matplotlib)))
    /\ results' = Summary(data, features, predictions)
    /\ pc' = "done"
    /\ UNCHANGED <<libs, disk, saved, data, features, target, predictions, model,
                   model_type, args, raised, calls, runs, ops, last>>

\* Step 4 without visualize, then the return of lines 86-98
SkipVisualization ==
    /\ pc = "visualize"
    /\ ~args.visualize
    /\ results' = Summary(data, features, predictions)
    /\ pc' = "done"
    /\ UNCHANGED <<libs, disk, saved, data, features, target, predictions,
                   model, model_type, args, trace, raised, calls, runs, ops, last>>

\* args, trace, results and raised describe the run_pipeline call in progress or
\* the one that just ended; the next top-level operation starts afresh
ForgetCall ==
    /\ pc' = "idle"
    /\ args' = None
    /\ trace' = <<>>
    /\ results' = None
    /\ raised' = None

\* the exception load_model catches and logs (lines 132-135): joblib missing,
\* no file at the path, or a file joblib cannot deserialize; None when the
\* load succeeds
load_caught(files, path, joblib) ==
    IF ~joblib THEN Exc("ImportError")
    ELSE IF files[path] = Absent THEN Exc("FileNotFoundError")
    ELSE IF files[path] = Corrupt THEN Exc("UnpicklingError")
    ELSE None

\* Orchestrator.save_model / PredictionAgent.save_model
SaveModel(path) ==
    /\ AtRest
    /\ ops < MaxOps
    /\ disk' = save_model(model, disk, path, libs.joblib)
    /\ saved' = IF model # None /\ libs.joblib
                THEN [saved EXCEPT ![path] = [model |-> model,
                                              model_type |-> model_type]]
                ELSE saved
    /\ last' = [op |-> "save_model", path |-> path, model |-> model,
                model_type |-> model_type, out |-> None]
    /\ ops' = ops + 1
    /\ ForgetCall
    /\ UNCHANGED <<libs, data, features, target, predictions, model,
                   model_type, calls, runs>>

\* Orchestrator.load_model / PredictionAgent.load_model
LoadModel(path) ==
    /\ AtRest
    /\ ops < MaxOps
    /\ model' = load_model(model, disk, path, libs.joblib)
    /\ last' = [op |-> "load_model", path |-> path, model |-> model,
                model_type |-> model_type,
                caught |-> load_caught(disk, path, libs.joblib), out |-> None]
    /\ ops' = ops + 1
    /\ ForgetCall
    /\ UNCHANGED <<libs, disk, saved, data, features, target, predictions,
                   model_type, calls, runs>>

\* the Feature Matrices and Label Series a direct caller of the PredictionAgent
\* passes: what the FeatureProcessorAgent returns for the source files, and a
\* matrix without rows
EmptyMatrix ==
    [cols |-> <<"age", "city">>, kinds |-> <<"number", "number">>, rows |-> <<>>]

\* a cleaned table of n rows whose target column holds k distinct values
LabelTable(n, k) ==
    [cols |-> <<"age", "target">>, kinds |-> <<"number", "number">>,
     rows |-> [i \in 1..n |-> <<Num(i), Num(((i - 1) % k) + 1)>>]]

\* tables of as many rows as the threshold, with one distinct target value
\* fewer than the threshold and with exactly as many
ThresholdTables ==
    {LabelTable(ClassificationThreshold, k) :
        k \in {ClassificationThreshold - 1, ClassificationThreshold}}

FeatureResults ==
    {FeatureProcessorRun(DataCollectorRun(p), c, TRUE) :
        p \in {"train.csv", "score.csv"}, c \in TargetColumns}
    \cup {FeatureProcessorRun(df, [name |-> "target"], TRUE) :
             df \in ThresholdTables}

FeatureMatrices == {r.features : r \in FeatureResults} \cup {EmptyMatrix}

LabelSeries == {r.target : r \in FeatureResults}

\* PredictionAgent.run called on the agent itself
AgentRun ==
    /\ AtRest
    /\ runs < MaxCalls
    /\ \E X \in FeatureMatrices, train \in BOOLEAN, y \in LabelSeries :
       \E nan_ok \in NanSupport(X) :
          LET r == PredictionRun(model, model_type, X, train, y, libs.sklearn,
                                 nan_ok)
          IN /\ model' = r.model
             /\ model_type' = r.model_type
             /\ last' = [op |-> "run", features |-> X, train |-> train,
                         target |-> y, model |-> model,
                         model_type |-> model_type, out |-> r.out]
    /\ runs' = runs + 1
    /\ ForgetCall
    /\ UNCHANGED <<libs, disk, saved, data, features, target, predictions,
                   calls, ops>>

\* PredictionAgent.__init__: a new agent in the same process environment
AgentInit ==
    /\ AtRest
    /\ model # None \/ model_type # None
    /\ model' = None
    /\ model_type' = None
    /\ last' = None
    /\ ForgetCall
    /\ UNCHANGED <<libs, disk, saved, data, features, target, predictions,
                   calls, runs, ops>>

\* the Orchestrator and its clients
Next ==
    \/ OrchestratorInit
    \/ StartPipeline
    \/ Collect
    \/ Feature
    \/ TrainAndPredict
    \/ MakePredictions
    \/ SkipPrediction
    \/ Visualize
    \/ SkipVisualization
    \/ \E path \in ModelPaths : SaveModel(path)
    \/ \E path \in ModelPaths : LoadModel(path)

Spec == Init /\ [][Next]_vars

\* the PredictionAgent alone, under any sequence of run, save_model and
\* load_model on it and on the agents constructed after it
NextAgent ==
    \/ AgentInit
    \/ AgentRun
    \/ \E path \in ModelPaths : SaveModel(path)
    \/ \E path \in ModelPaths : LoadModel(path)

SpecAgent == Init /\ [][NextAgent]_vars

\* ------------------------------------------------------------------ the VisualizationAgent alone

\* the prediction vectors a direct caller passes: none, or zeros for the rows
\* of either source file
PredictionVectors == {None, Zeros(2), Zeros(3)}

\* VisualizationAgent.run called on the agent itself
VisualizationCall ==
    /\ AtRest
    /\ \E p \in {"train.csv", "score.csv"}, preds \in PredictionVectors,
          tgt \in LabelSeries, save_path \in SaveVisualizations :
          last' = [op |-> "visualize", data |-> DataCollectorRun(p),
                   predictions |-> preds, target |-> tgt,
                   save_path |-> save_path,
                   out |-> VisualizationRun(DataCollectorRun(p), preds, tgt,
                                            save_path, libs.matplotlib)]
    /\ ForgetCall
    /\ UNCHANGED <<libs, disk, saved, data, features, target, predictions,
                   model, model_type, calls, runs, ops>>

NextVisualization == VisualizationCall

SpecVisualization == Init /\ [][NextVisualization]_vars

\* ------------------------------------------------------------------ the data agents on any table

\* rows of a source table
MaxRows == 3

\* the cells of a numeric column and of a text column; an empty field is
\* parsed as a missing value
AgeCells == {Num(1), Num(2), NaN}

CityCells == {Str(1), Str(2), NaN}

\* the cells of a column of True / False fields: False is 0, True is 1
FlagCells == {<<"bool", 0>>, <<"bool", 1>>}

\* pd.read_csv on a well-formed file of two columns: dtypes are inferred per
\* column
ParsedTable(rows) ==
    [cols |-> <<"age", "city">>,
     kinds |-> [j \in 1..2 |-> InferKind([i \in 1..Len(rows) |-> rows[i][j]])],
     rows |-> rows]

\* pd.read_csv on a well-formed file of a numeric and a True / False column
FlagTable(rows) ==
    [cols |-> <<"age", "flag">>,
     kinds |-> [j \in 1..2 |-> InferKind([i \in 1..Len(rows) |-> rows[i][j]])],
     rows |-> rows]

ParsedTables ==
    {ParsedTable(rows) :
        rows \in UNION {[1..n -> AgeCells \X CityCells] : n \in 0..MaxRows}}
    \cup {FlagTable(rows) :
             rows \in UNION {[1..n -> AgeCells \X FlagCells] : n \in 1..MaxRows}}

\* the target_column arguments for such a table: none, either column, or a
\* name the table does not have
TableTargetColumns ==
    {None, [name |-> "age"], [name |-> "city"], [name |-> "label"]}

\* DataCollectorAgent and FeatureProcessorAgent constructed; the table of the
\* source file is in args; scikit-learn may be missing
InitData ==
    /\ libs \in [sklearn : BOOLEAN, joblib : {TRUE}, matplotlib : {TRUE}]
    /\ disk = [p \in ModelPaths |-> IF p = "corrupt.pkl" THEN Corrupt ELSE Absent]
    /\ saved = [p \in ModelPaths |-> None]
    /\ data = None
    /\ features = None
    /\ target = None
    /\ predictions = None
    /\ model = None
    /\ model_type = None
    /\ pc = "parsed"
    /\ args \in {[df |-> t] : t \in ParsedTables}
    /\ trace = <<>>
    /\ results = None
    /\ raised = None
    /\ calls = 0
    /\ runs = 0
    /\ ops = 0
    /\ last = None

\* DataCollectorAgent.run after read_csv (lines 36-41): data is what it returns
CleanTable ==
    /\ pc = "parsed"
    /\ data' = clean_data(args.df)
    /\ last' = [op |-> "clean_data", df |-> args.df, out |-> clean_data(args.df)]
    /\ pc' = "cleaned"
    /\ UNCHANGED <<libs, disk, saved, features, target, predictions, model,
                   model_type, args, trace, results, raised, calls, runs, ops>>

\* FeatureProcessorAgent.run called on the agent itself, with the table as
\* parsed or as cleaned: features and target are what it returns
ProcessTable ==
    /\ pc \in {"parsed", "cleaned"}
    /\ \E target_column \in TableTargetColumns :
          LET df == IF pc = "parsed" THEN args.df ELSE data
              r == FeatureProcessorRun(df, target_column, libs.sklearn)
          IN /\ features' = r.features
             /\ target' = r.target
             /\ last' = [op |-> "process", df |-> df,
                         target_column |-> target_column, out |-> r]
    /\ pc' = "processed"
    /\ UNCHANGED <<libs, disk, saved, data, predictions, model, model_type,
                   args, trace, results, raised, calls, runs, ops>>

NextData ==
    \/ CleanTable
    \/ ProcessTable

SpecData == InitData /\ [][NextData]_vars

\* ------------------------------------------------------------------ properties

\* the positions of the trace at which a stage was invoked
Invoked(stage) == {i \in 1..Len(trace) : trace[i].stage = stage}

\* the (first) invocation of a stage in the current call
TheInvocation(stage) == trace[CHOOSE i \in Invoked(stage) : TRUE]

StageRank(stage) ==
    CASE stage = "Collection" -> 1
      [] stage = "Feature" -> 2
      [] stage = "Prediction" -> 3
      [] stage = "Visualization" -> 4

\* the Feature stage of the current call returned a Label Series
LabelReturned ==
    Invoked("Feature") # {} /\ TheInvocation("Feature").output.target # None

\* the Prediction stage of the current call returned a Prediction Vector
VectorProduced ==
    Invoked("Prediction") # {} /\ ~IsExc(TheInvocation("Prediction").output)

\* C1 (as claimed): Prediction is invoked only (a) for training, when train is
\* true and the Feature stage of the same call returned a Label Series, with
\* that call's Feature Matrix and Label Series, or (b) for inference, when train
\* is false and the stage held a model.
C1_PredictionOnlyWhenDue ==
    \A i \in Invoked("Prediction") :
       \/ /\ args.train_model
          /\ LabelReturned
          /\ trace[i].input.train
          /\ trace[i].input.features = TheInvocation("Feature").output.features
          /\ trace[i].input.target = TheInvocation("Feature").output.target
       \/ /\ ~args.train_model
          /\ trace[i].input.model # None
          /\ ~trace[i].input.train

\* C2 (as claimed): in the summary, has_predictions is true exactly when the
\* Prediction stage produced a vector during this call; then the count is the
\* row count of data_shape, and otherwise no count is reported.
C2_SummaryReflectsThisCall ==
    pc = "done" =>
       /\ results.has_predictions = VectorProduced
       /\ results.has_predictions =>
             /\ "num_predictions" \in DOMAIN results
             /\ results.num_predictions = results.data_shape[1]
       /\ ~results.has_predictions => "num_predictions" \notin DOMAIN results

\* C3: the stages of a call are invoked in the order Collection, Feature,
\* Prediction, Visualization, each after every earlier one has returned, and
\* Feature is given Collection's Dataset, Prediction Feature's Feature Matrix.
C3_StagesInOrder ==
    /\ \A i, j \in 1..Len(trace) :
          i < j => /\ StageRank(trace[i].stage) < StageRank(trace[j].stage)
                   /\ ~IsExc(trace[i].output)
    /\ trace # <<>> => trace[1].stage = "Collection"
    /\ Len(trace) > 1 => trace[2].stage = "Feature"
    /\ \A i \in Invoked("Feature") :
          trace[i].input.df = TheInvocation("Collection").output
    /\ \A i \in Invoked("Prediction") :
          trace[i].input.features = TheInvocation("Feature").output.features

\* C3 witness: a call that ran all four stages, Prediction for training
C3_Witness ==
    /\ pc = "done"
    /\ Len(trace) = 4
    /\ TheInvocation("Prediction").input.train
    /\ Len(TheInvocation("Prediction").input.features.rows) > 0

\* a stage failed: Collection, Feature or Prediction raised; inside
\* Visualization something other than the missing plotting library raised
StageFailed(inv) ==
    IF inv.stage = "Visualization"
    THEN inv.output.caught \notin {None, Exc("ImportError")}
    ELSE IsExc(inv.output)

\* the call was aborted by the failure of invocation i, which the caller sees as is
AbortedBy(i) ==
    /\ i = Len(trace)
    /\ pc = "failed"
    /\ raised = trace[i].output
    /\ results = None

\* C4 (as claimed): the failure of any stage, Visualization included, reaches
\* the caller unmodified, ends the call without a summary, and the failed stage
\* is the last one invoked.
C4_AnyStageFailureAborts ==
    \A i \in 1..Len(trace) :
       StageFailed(trace[i]) =>
          /\ i = Len(trace)
          /\ pc = "failed"
          /\ results = None
          /\ raised = (IF trace[i].stage = "Visualization"
                       THEN trace[i].output.caught ELSE trace[i].output)

\* C4 (amended): the failure of Collection, Feature or Prediction reaches the
\* caller unmodified, no later stage is invoked, the failed stage is not invoked
\* again and no summary is returned; a path that does not resolve or does not
\* parse fails in Collection, before Feature.  A failure inside Visualization is
\* caught there: the call returns its summary and raises nothing.
C4_FailFast ==
    /\ \A i \in 1..Len(trace) :
          /\ (trace[i].stage # "Visualization" /\ StageFailed(trace[i]))
                => AbortedBy(i)
          /\ (trace[i].stage = "Visualization" /\ StageFailed(trace[i]))
                => pc = "done" /\ results # None /\ raised = None
    /\ pc = "failed" => trace # <<>> /\ StageFailed(trace[Len(trace)])
    /\ (pc \notin {"idle", "collect"}
          /\ args.data_path \in {"garbage.csv", "nofile.csv"})
          => /\ pc = "failed"
             /\ Len(trace) = 1
             /\ raised \in {Exc("ParserError"), Exc("FileNotFoundError")}

\* C4 witness: a call aborted by the failure of the Prediction stage
C4_Witness ==
    /\ pc = "failed"
    /\ Len(trace) = 3
    /\ trace[3].stage = "Prediction"
    /\ raised = Exc("ValueError")

\* C5 (as claimed): after a failed call the Coordinator holds exactly the
\* artifacts of the stages that succeeded in that call, and none of the failed
\* stage or of a later one.
C5_FailedCallHoldsPrefixOnly ==
    pc = "failed" =>
       LET failed == trace[Len(trace)].stage
       IN /\ predictions = None
          /\ failed = "Collection" =>
                data = None /\ features = None /\ target = None
          /\ failed = "Feature" =>
                /\ data = TheInvocation("Collection").output
                /\ features = None /\ target = None
          /\ failed = "Prediction" =>
                /\ data = TheInvocation("Collection").output
                /\ features = TheInvocation("Feature").output.features
                /\ target = TheInvocation("Feature").output.target

\* C6: in a call Collection is invoked exactly once, Feature exactly once when
\* Collection succeeded, Prediction and Visualization at most once each.
C6_EachStageOnce ==
    /\ \A s \in {"Collection", "Feature", "Prediction", "Visualization"} :
          Cardinality(Invoked(s)) <= 1
    /\ \A i \in 1..Len(trace) :
          trace[i].stage \in {"Collection", "Feature", "Prediction", "Visualization"}
    /\ pc \in {"done", "failed"} =>
          /\ Cardinality(Invoked("Collection")) = 1
          /\ ~IsExc(TheInvocation("Collection").output)
                => Cardinality(Invoked("Feature")) = 1
          /\ IsExc(TheInvocation("Collection").output) => Len(trace) = 1

\* C6 witness: a finished call with Prediction invoked for inference and
\* Visualization invoked
C6_Witness ==
    /\ pc = "done"
    /\ Invoked("Prediction") # {}
    /\ ~TheInvocation("Prediction").input.train
    /\ Invoked("Visualization") # {}

\* C7: after the earlier stages succeeded, Visualization is invoked exactly when
\* visualize is true; it is given the cleaned Dataset of this call's Collection
\* (not the Feature Matrix) and the Prediction Vector and Label Series the
\* Coordinator holds, which are this call's when this call produced them, and
\* it is invoked also when it holds neither.
C7_VisualizationAsRequested ==
    /\ pc = "done" => (Invoked("Visualization") # {} <=> args.visualize)
    /\ \A i \in Invoked("Visualization") :
          /\ args.visualize
          /\ \A k \in 1..(i - 1) : ~IsExc(trace[k].output)
          /\ trace[i].input.data = TheInvocation("Collection").output
          /\ trace[i].input.predictions = predictions
          /\ trace[i].input.target = target
          /\ VectorProduced =>
                trace[i].input.predictions = TheInvocation("Prediction").output
          /\ LabelReturned =>
                trace[i].input.target = TheInvocation("Feature").output.target

\* C7 witness: Visualization invoked with neither predictions nor labels
C7_Witness ==
    /\ pc = "done"
    /\ Invoked("Visualization") # {}
    /\ TheInvocation("Visualization").input.predictions = None
    /\ TheInvocation("Visualization").input.target = None
    /\ TheInvocation("Visualization").output.panels = 1

\* the first call on a new Orchestrator, with train and a label column of a
\* source that has rows, has returned
FreshTrainingCallDone ==
    /\ pc = "done"
    /\ calls = 1
    /\ args.train_model
    /\ args.target_column # None
    /\ "cols" \in DOMAIN CsvFile(args.data_path)
    /\ args.target_column.name \in Range(CsvFile(args.data_path).cols)
    /\ CsvFile(args.data_path).rows # <<>>

\* the rows of a source after cleaning: its distinct rows without a missing cell
CleanRowCount(path) ==
    Cardinality({r \in Range(CsvFile(path).rows) : ~HasMissing(r)})

\* C8: the summary of the first call on a fresh Coordinator, with train and a
\* label column of a non-empty source of R rows after cleaning and C columns,
\* is data_shape (R, C), feature_shape (R, C-1), has_predictions, count R.
C8_FreshTrainingSummary ==
    FreshTrainingCallDone =>
       LET R == CleanRowCount(args.data_path)
           C == Len(CsvFile(args.data_path).cols)
       IN results = [data_shape |-> <<R, C>>, features_shape |-> <<R, C - 1>>,
                     has_predictions |-> TRUE, num_predictions |-> R]

\* C8 witness: such a call on the 5-row, 3-column source, 3 rows after cleaning
C8_Witness ==
    /\ FreshTrainingCallDone
    /\ args.data_path = "train.csv"
    /\ results.data_shape = <<3, 3>>
    /\ libs.sklearn

\* the last operation was PredictionAgent.run
LastRun == last # None /\ last.op = "run"

\* C9: inference on a PredictionAgent that holds no model never fails: it
\* returns zeros, one per row of the Feature Matrix, and the agent still holds
\* no model afterwards.
C9_UntrainedInferenceDegrades ==
    (LastRun /\ ~last.train /\ last.model = None) =>
       /\ ~IsExc(last.out)
       /\ Len(last.out.vals) = Len(last.features.rows)
       /\ \A i \in 1..Len(last.out.vals) : last.out.vals[i] = Num(0)
       /\ model = None
       /\ model_type = last.model_type

\* C9 witness: inference without a model on a matrix that has rows
C9_Witness ==
    /\ LastRun
    /\ ~last.train
    /\ last.model = None
    /\ Len(last.features.rows) > 1
    /\ libs.sklearn

\* a training call with a Label Series returned a Prediction Vector
TrainingReturned ==
    LastRun /\ last.train /\ last.target # None /\ ~IsExc(last.out)

TaskKinds == {[kind |-> "classification"], [kind |-> "regression"]}

\* C10 (as claimed): after a training call that returns a Prediction Vector
\* the agent holds a model, its task kind is classification or regression, and
\* the vector has one entry per row.
C10_TrainingAlwaysTrains ==
    TrainingReturned =>
       /\ model # None
       /\ model_type \in TaskKinds
       /\ Len(last.out.vals) = Len(last.features.rows)

\* C10 (amended): the vector returned by a training call has one entry per row;
\* with scikit-learn available the agent then holds a fitted model whose class
\* is its task kind, classification or regression; without it the vector is all
\* zeros and the model and the task kind are what they were before the call.
C10_TrainingLeavesTrained ==
    TrainingReturned =>
       /\ Len(last.out.vals) = Len(last.features.rows)
       /\ libs.sklearn =>
             /\ model # None
             /\ model.fitted
             /\ model_type \in TaskKinds
             /\ model.cls = model_type.kind
       /\ ~libs.sklearn =>
             /\ model = last.model
             /\ model_type = last.model_type
             /\ \A i \in 1..Len(last.out.vals) : last.out.vals[i] = Num(0)

\* C10 witness: a training call on an untrained agent that left it trained
C10_Witness ==
    /\ TrainingReturned
    /\ last.model = None
    /\ model # None
    /\ model_type = [kind |-> "classification"]
    /\ Len(last.out.vals) = 3

\* the number of distinct values of a Label Series
DistinctLabels(y) == Cardinality({v \in Range(y.vals) : ~IsNaN(v)})

\* the task kind the threshold rule gives a Label Series
KindFor(y) ==
    [kind |-> IF DistinctLabels(y) <= 19 THEN "classification" ELSE "regression"]

\* a training call with a Label Series
TrainingCalled == LastRun /\ last.train /\ last.target # None

\* C11 (as claimed): after every training call the recorded task kind is the
\* one the number of distinct label values selects: classification for fewer
\* than 20 (19 included), regression for 20 or more, whatever it was before.
C11_TrainingRecordsSelectedKind ==
    TrainingCalled => model_type = KindFor(last.target)

\* C11 (amended): with scikit-learn available, after every training call
\* (even one whose fit raised) the recorded task kind is the one the number of
\* distinct label values selects, classification for at most 19 and regression
\* for 20 or more, whatever it was before; without scikit-learn no task kind
\* is selected and the recorded one is left as it was.
C11_SelectedKindWhenAvailable ==
    TrainingCalled =>
       /\ libs.sklearn => model_type = KindFor(last.target)
       /\ ~libs.sklearn => model_type = last.model_type

\* C11 witness: a stage trained for regression on 20 distinct label values is
\* trained again on 19 distinct values in as many rows and records
\* classification
C11_Witness ==
    /\ TrainingCalled
    /\ last.model_type = [kind |-> "regression"]
    /\ DistinctLabels(last.target) = 19
    /\ Len(last.target.vals) = 20
    /\ model_type = [kind |-> "classification"]

\* C12: an inference call on a PredictionAgent that holds a model leaves the
\* model and the task kind exactly as they were, whether the call returns a
\* vector or raises.
C12_InferenceKeepsModel ==
    (LastRun /\ ~last.train /\ last.model # None) =>
       /\ model = last.model
       /\ model_type = last.model_type

\* C12 witness: inference on a fitted classification model returned a vector
C12_Witness ==
    /\ LastRun
    /\ ~last.train
    /\ last.model # None
    /\ last.model.fitted
    /\ last.model_type = [kind |-> "classification"]
    /\ ~IsExc(last.out)
    /\ Len(last.out.vals) > 0

\* C13: a training call without a Label Series raises the ValueError of
\* line 38, returns no vector, and leaves the model and the task kind as they
\* were.
C13_TrainingWithoutLabelFails ==
    (LastRun /\ last.train /\ last.target = None) =>
       /\ last.out = Exc("ValueError")
       /\ model = last.model
       /\ model_type = last.model_type

\* C13 witness: a training call without a Label Series on a trained agent,
\* with a matrix the model could have predicted on
C13_Witness ==
    /\ LastRun
    /\ last.train
    /\ last.target = None
    /\ last.model # None
    /\ last.model.fitted
    /\ last.features.cols = last.model.cols
    /\ Len(last.features.rows) > 0

\* the last operation was a load_model call
LastLoad == last # None /\ last.op = "load_model"

\* C14 (as claimed): a load_model call on a file that cannot be deserialized
\* raises an error to its caller instead of returning normally.
C14_UndeserializableLoadRaises ==
    (LastLoad /\ last.caught = Exc("UnpicklingError")) => IsExc(last.out)

\* C15: a load_model call that restores nothing (the file is missing or cannot
\* be deserialized, or joblib is unavailable) leaves the model and the task
\* kind exactly as they were before the call.
C15_FailedLoadKeepsState ==
    (LastLoad /\ last.caught # None) =>
       /\ model = last.model
       /\ model_type = last.model_type

\* C15 witness: a failed load on an agent that holds a fitted model
C15_Witness ==
    /\ LastLoad
    /\ last.caught = Exc("UnpicklingError")
    /\ last.model # None
    /\ last.model.fitted
    /\ last.model_type \in TaskKinds

\* the last operation was a load_model call that restored the file a Trained
\* agent (fitted model, task kind recorded) had saved at that path
LoadedSavedModel ==
    /\ LastLoad
    /\ last.caught = None
    /\ saved[last.path] # None
    /\ saved[last.path].model.fitted
    /\ saved[last.path].model_type \in TaskKinds

\* C16 (as claimed): after save_model on a Trained agent and load_model of
\* that file on any agent, the loading agent holds the model and the task kind
\* the saving agent held, and inference on every Feature Matrix returns what
\* the saving agent would return.
C16_RoundTripRestoresHandle ==
    LoadedSavedModel =>
       LET handle == saved[last.path]
       IN /\ model = handle.model
          /\ model_type = handle.model_type
          /\ \A X \in FeatureMatrices : \A nan_ok \in NanSupport(X) :
                predict(model, model_type, X, nan_ok).out
                   = predict(handle.model, handle.model_type, X, nan_ok).out

\* the last step was a save_model call on an agent that held no model
SaveWithoutModel ==
    /\ model = None
    /\ ops' = ops + 1
    /\ last' # None
    /\ last'.op = "save_model"

\* C17: save_model on an agent that holds no model writes nothing to any path,
\* raises nothing, and leaves the agent without a model and its task kind as
\* it was.
C17_SaveWithoutModelIsNoOp ==
    [][SaveWithoutModel =>
          /\ disk' = disk
          /\ saved' = saved
          /\ last'.out = None
          /\ model' = None
          /\ model_type' = model_type]_vars

\* C17 witness: save_model was called with joblib available on an agent that
\* held no model, on a path where no file is
C17_Witness ==
    /\ last # None
    /\ last.op = "save_model"
    /\ last.model = None
    /\ libs.joblib
    /\ disk[last.path] = Absent

\* the last operation was DataCollectorAgent's cleaning of a parsed table
LastClean == last # None /\ last.op = "clean_data"

\* C18: whatever the input table, the cleaned table has no two identical rows
\* and no missing cell.
C18_CleanHasNoDuplicateNoMissing ==
    LastClean =>
       LET rows == last.out.rows
       IN /\ \A i, j \in 1..Len(rows) : i # j => rows[i] # rows[j]
          /\ \A i \in 1..Len(rows) : \A k \in 1..Len(rows[i]) : ~IsNaN(rows[i][k])

\* C18 witness: the input has a repeated row and a row with a missing cell,
\* and rows are left
C18_Witness ==
    /\ LastClean
    /\ \E i, j \in 1..Len(last.df.rows) : i # j /\ last.df.rows[i] = last.df.rows[j]
    /\ \E i \in 1..Len(last.df.rows) : HasMissing(last.df.rows[i])
    /\ Len(last.out.rows) > 0

\* the positions of the input rows that are kept: complete rows that no earlier
\* row equals
KeptPositions(rows) ==
    {i \in 1..Len(rows) :
        /\ \A k \in 1..Len(rows[i]) : ~IsNaN(rows[i][k])
        /\ \A j \in 1..(i - 1) : rows[j] # rows[i]}

\* the n-th kept position, in increasing order
NthKept(rows, n) ==
    CHOOSE i \in KeptPositions(rows) :
        Cardinality({j \in KeptPositions(rows) : j <= i}) = n

\* C19: cleaning only removes rows: the columns are the input's, and the rows
\* are the input rows without missing cell, each distinct row once, at the
\* position of its first occurrence, in the input's order.
C19_CleanOnlyRemovesRows ==
    LastClean =>
       /\ last.out.cols = last.df.cols
       /\ Len(last.out.rows) = Cardinality(KeptPositions(last.df.rows))
       /\ \A n \in 1..Len(last.out.rows) :
             last.out.rows[n] = last.df.rows[NthKept(last.df.rows, n)]

\* C19 witness: a row with a missing cell and the second occurrence of a row
\* were removed from between and after rows that were kept
C19_Witness ==
    /\ LastClean
    /\ Len(last.df.rows) = 3
    /\ last.df.rows[3] = last.df.rows[1]
    /\ last.df.rows[2] # last.df.rows[1]
    /\ ~HasMissing(last.df.rows[2])
    /\ last.out.rows = <<last.df.rows[1], last.df.rows[2]>>

\* the last operation was a direct call of FeatureProcessorAgent.run
LastProcess == last # None /\ last.op = "process"

\* C20: when target_column names a column of the table, the Feature Matrix
\* has the table's row count and the table's columns without that column, in
\* the same order, and the Label Series holds that column's values as they are
\* in the table, in row order; when no Label Series is returned the Feature
\* Matrix has the table's columns and row count.
C20_FeatureSplitsLabelColumn ==
    LastProcess =>
       LET df == last.df
           X == last.out.features
           y == last.out.target
           named == /\ last.target_column # None
                    /\ last.target_column.name \in Range(df.cols)
       IN /\ Len(X.rows) = Len(df.rows)
          /\ \A i \in 1..Len(X.rows) : Len(X.rows[i]) = Len(X.cols)
          /\ named =>
                /\ X.cols = SelectSeq(df.cols, LAMBDA c : c # last.target_column.name)
                /\ y # None
                /\ Len(y.vals) = Len(df.rows)
                /\ \A i \in 1..Len(df.rows) : \E j \in 1..Len(df.cols) :
                      /\ df.cols[j] = last.target_column.name
                      /\ y.vals[i] = df.rows[i][j]
          /\ y = None => X.cols = df.cols

\* C20 witness: the first column, numeric with two different values, was the
\* label of a cleaned table of two rows
C20_Witness ==
    /\ LastProcess
    /\ last.target_column = [name |-> "age"]
    /\ last.df = data
    /\ last.out.target # None
    /\ last.out.target.vals = <<Num(1), Num(2)>>
    /\ last.out.features.cols = <<"city">>

\* C21: a call whose target_column is not a column of the table returns what
\* the call without target_column returns on that table: no error, no Label
\* Series, and all the table's columns as transformed features.
C21_AbsentLabelColumnIsNoLabel ==
    (/\ LastProcess
     /\ last.target_column # None
     /\ last.target_column.name \notin Range(last.df.cols)) =>
       /\ last.out = FeatureProcessorRun(last.df, None, libs.sklearn)
       /\ last.out.target = None
       /\ ~IsExc(last.out.features)
       /\ last.out.features = engineer_features(last.df, libs.sklearn)
       /\ last.out.features.cols = last.df.cols

\* C21 witness: the call named a column the cleaned table of two different
\* rows does not have
C21_Witness ==
    /\ LastProcess
    /\ last.target_column = [name |-> "label"]
    /\ last.df = data
    /\ Len(last.df.rows) = 2
    /\ last.df.rows[1][1] # last.df.rows[2][1]
    /\ last.df.rows[1][2] # last.df.rows[2][2]
    /\ last.out.features # last.df

\* the column of table df that column j of the Feature Matrix X comes from
SourceColumn(df, X, j) == Column(df, ColIndex(df, X.cols[j]))

\* the last operation was FeatureProcessorAgent.run on the table
\* DataCollectorAgent.run returned, as in run_pipeline (lines 54-58)
LastProcessCleaned == LastProcess /\ last.df = data

\* the columns of the Feature Matrix of the last call that come from text
\* columns
EncodedColumns ==
    {j \in 1..Len(last.out.features.cols) :
        last.df.kinds[ColIndex(last.df, last.out.features.cols[j])] = "object"}

\* C22: with LabelEncoder and with the pd.Categorical fallback alike, every
\* cell of a text column of a cleaned table is replaced by a non-negative
\* integer code, two cells get the same code exactly when their values are
\* equal, and the codes are exactly 0..k-1 for k distinct values.
C22_CodesAreDense ==
    LastProcessCleaned =>
       \A j \in EncodedColumns :
          LET src == SourceColumn(last.df, last.out.features, j)
              out == Column(last.out.features, j)
              rows == 1..Len(src)
          IN /\ \A i \in rows : out[i][1] = "num" /\ out[i][2] >= 0
             /\ \A i, k \in rows : (out[i] = out[k]) <=> (src[i] = src[k])
             /\ {out[i][2] : i \in rows} = 0..(Cardinality(Range(src)) - 1)

\* C22 witness: the fallback path encoded a text column of three cells and two
\* distinct values, the larger one first
C22_Witness ==
    /\ LastProcessCleaned
    /\ ~libs.sklearn
    /\ last.df.cols[2] = "city"
    /\ Column(last.df, 2) = <<Str(2), Str(1), Str(2)>>
    /\ 2 \in EncodedColumns
    /\ Column(last.out.features, 2) = <<Num(1), Num(0), Num(1)>>

\* the columns of the Feature Matrix of the last call that come from numeric
\* columns
NumericColumns ==
    {j \in 1..Len(last.out.features.cols) :
        last.df.kinds[ColIndex(last.df, last.out.features.cols[j])] = "number"}

\* C23 (as claimed): every numeric column of a cleaned table whose values are
\* all equal, the column of a one-row table included, is returned with its
\* values unchanged.
C23_ConstantColumnUnchanged ==
    LastProcessCleaned =>
       \A j \in NumericColumns :
          LET src == SourceColumn(last.df, last.out.features, j)
          IN (\A i, k \in 1..Len(src) : src[i] = src[k]) =>
                Column(last.out.features, j) = src

\* the last operation was a direct call of VisualizationAgent.run
LastVisualize == last # None /\ last.op = "visualize"

\* C24: when matplotlib is there to render, the number of panels is decided by
\* which of predictions and target are given, whatever their values, the data
\* and the save path: 1 without predictions (with or without target), 2 with
\* predictions and no target, 3 with both.
C24_PanelCount ==
    (LastVisualize /\ libs.matplotlib) =>
       /\ last.predictions = None => last.out.panels = 1
       /\ (last.predictions # None /\ last.target = None) => last.out.panels = 2
       /\ (last.predictions # None /\ last.target # None) => last.out.panels = 3

\* C24 witness: a target was given without predictions and one panel was
\* rendered and saved
C24_Witness ==
    /\ LastVisualize
    /\ libs.matplotlib
    /\ last.predictions = None
    /\ last.target # None
    /\ last.out.panels = 1
    /\ last.out.wrote # None

\* C25: without matplotlib the Visualization stage of a run_pipeline call
\* renders nothing, writes no file and raises nothing (the ImportError is caught
\* and logged), and the call returns its summary.
C25_MissingPlottingIsInvisible ==
    \A i \in Invoked("Visualization") :
       ~libs.matplotlib =>
          /\ trace[i].output.panels = 0
          /\ trace[i].output.wrote = None
          /\ trace[i].output.caught = Exc("ImportError")
          /\ raised = None
          /\ pc = "done"
          /\ results # None
          /\ results = Summary(data, features, predictions)

\* C25 witness: a training call with visualize and an image path returned
\* its summary, predictions included, without matplotlib
C25_Witness ==
    /\ pc = "done"
    /\ ~libs.matplotlib
    /\ libs.sklearn
    /\ args.visualize
    /\ args.train_model
    /\ args.save_visualization = [name |-> "plots/out.png"]
    /\ Invoked("Visualization") # {}
    /\ VectorProduced
    /\ results # None

\* column j of the Feature Matrix of the last call is a standardized numeric
\* column: every cell is a standard score and the scores sum to zero, or the
\* column had zero variance and is as it was
NormalizedNumeric(j) ==
    LET src == SourceColumn(last.df, last.out.features, j)
        out == Column(last.out.features, j)
    IN /\ \A i \in 1..Len(src) : src[i][1] = "num"
       /\ \/ /\ \A i \in 1..Len(out) : out[i][1] = "z"
             /\ SumSeq([i \in 1..Len(out) |-> out[i][2]]) = 0
          \/ /\ \A i, k \in 1..Len(src) : src[i] = src[k]
             /\ out = src

\* column j of the Feature Matrix of the last call is an integer-encoded
\* column: every cell is a code, a natural number
IntegerEncoded(j) ==
    LET out == Column(last.out.features, j)
    IN \A i \in 1..Len(out) : out[i][1] = "num" /\ out[i][2] \in Nat

\* C26 (as claimed): every column of the Feature Matrix of a cleaned table with
\* rows, whether the source column is numeric, text or boolean, is a
\* normalized numeric column or an integer-encoded column.
C26_EveryColumnTransformed ==
    (LastProcessCleaned /\ Len(last.df.rows) >= 2) =>
       \A j \in 1..Len(last.out.features.cols) :
          \/ j \in NumericColumns /\ NormalizedNumeric(j)
          \/ j \notin NumericColumns /\ IntegerEncoded(j)

\* what the Collection stage of the current call returned
Collected == TheInvocation("Collection").output

\* C27: within a run_pipeline call no stage changes what an earlier stage
\* produced: once Collection has returned, data is its result through Feature,
\* Prediction and Visualization, which are handed that result; features, and
\* the target when Feature returned one, are Feature's results through
\* Prediction and Visualization; predictions are Prediction's result.
C27_ArtifactsUnchanged ==
    /\ \A i \in Invoked("Collection") :
          ~IsExc(trace[i].output) => data = trace[i].output
    /\ \A i \in Invoked("Feature") :
          /\ trace[i].input.df = Collected
          /\ features = trace[i].output.features
          /\ trace[i].output.target # None => target = trace[i].output.target
    /\ \A i \in Invoked("Prediction") :
          /\ trace[i].input.features = TheInvocation("Feature").output.features
          /\ ~IsExc(trace[i].output) => predictions = trace[i].output
    /\ \A i \in Invoked("Visualization") :
          trace[i].input.data = Collected

\* C27 witness: all four stages have run on a source with rows, without a
\* label column, and the Feature Matrix differs from the Dataset
C27_Witness ==
    /\ pc = "done"
    /\ Invoked("Visualization") # {}
    /\ VectorProduced
    /\ ~LabelReturned
    /\ Len(data.rows) > 1
    /\ features # data
    /\ libs.matplotlib

\* C28 (as claimed): a training call whose fit raises leaves the model and the
\* task kind as they were before the call, and the agent never holds an
\* unfitted model.
C28_FailedFitKeepsState ==
    /\ (TrainingCalled /\ IsExc(last.out)) =>
          /\ model = last.model
          /\ model_type = last.model_type
    /\ model # None => model.fitted

\* C29 (as claimed): the agent holds no task kind exactly when it holds no
\* model, and the task kind of an agent that holds a model is classification
\* or regression, the kind of that model.
C29_TaskKindMatchesModel ==
    /\ model = None <=> model_type = None
    /\ model # None =>
          /\ model_type \in TaskKinds
          /\ model_type.kind = model.cls

\* df.isnull().sum().sum(): the missing cells of a sequence of rows
MissingCells(rows) ==
    SumSeq([i \in 1..Len(rows) |->
               Cardinality({j \in 1..Len(rows[i]) : IsNaN(rows[i][j])})])

\* C30: the cleaned table is what removing the incomplete rows first and the
\* duplicates second gives, for every input table.
C30_CleanOrderIndependent ==
    LastClean =>
       /\ last.out.rows = drop_duplicates(dropna(last.df.rows))
       /\ last.out.cols = last.df.cols
       /\ last.out.kinds = last.df.kinds

\* C30 witness: an incomplete row occurs twice, so that the missing cells
\* counted after the duplicates are removed (line 64) are fewer than those of
\* the input, and rows are left
C30_Witness ==
    /\ LastClean
    /\ MissingCells(drop_duplicates(last.df.rows)) < MissingCells(last.df.rows)
    /\ Len(last.out.rows) > 0

====
